---- MODULE Spec2Model ----
(***************************************************************************)
(* K-means clustering with K-means++ seeding, as implemented in            *)
(* src/kmeaningful/fit_assign.py.                                          *)
(*                                                                         *)
(* Representation.                                                         *)
(*  - An (n,d) array is a function 0..n-1 -> (0..d-1 -> number); a 1-D     *)
(*    array is a function 0..m-1 -> number (numpy indexing is 0-based).    *)
(*  - Numbers are exact fixed-point rationals: the integer v stands for    *)
(*    v / Scale.  The data are whole numbers, and every cluster mean is a  *)
(*    sum of data divided by a count <= n, so with Scale a common multiple *)
(*    of 1..n every value that the program computes is represented         *)
(*    exactly.                                                             *)
(*  - A Euclidean distance np.sqrt(s) is the value Sqrt(s, pt, cent),      *)
(*    which records its radicand s (the sum of squares, in units of        *)
(*    1/Scale^2) and its operands.  sqrt is strictly increasing on the     *)
(*    non-negative numbers, so two distances of different radicands        *)
(*    compare as their radicands do.                                       *)
(*  - float64 rounding.  The program holds the float nearest to each       *)
(*    number.  A number is Exact when float64 represents it (its reduced   *)
(*    denominator is a power of two); the data are Exact, a mean with a    *)
(*    denominator 3 is not.  Arithmetic on Exact operands of this size is  *)
(*    exact.  A rounding error is far smaller than 1/Scale^2, so it        *)
(*    decides a comparison only where the exact values are equal: there,   *)
(*    when a rounded operand is involved, the model takes every outcome of *)
(*    the comparison as possible.  assign, calc_centers, SumDiff and       *)
(*    WhileCond therefore give the SET of outcomes the float computation   *)
(*    can have (one outcome when no rounded operand meets a tie).          *)
(*  - A call returns Ok(value) or Raise(kind, message).                    *)
(*  - The random draws (random.randint, np.random.choice) are a choice     *)
(*    among the outcomes of positive probability.                          *)
(***************************************************************************)
EXTENDS Integers, FiniteSets, Sequences, TLC

\* ------------------------------------------------------------ bounds
MaxN == 2          \* largest number of points n in a drawn data set
MaxCoord == 2      \* drawn coordinates are the whole numbers 0..MaxCoord
CallMaxN == 2      \* largest number of rows of an argument of a direct call

\* widths d of the drawn arrays
Dims == {1, 2}

\* iteration cap of fit's while loop ("i < 20")
MaxIter == 20

\* Example data sets, in whole numbers.
\* Two well separated pairs.
BlobsPts == << <<0, 0>>, <<0, 1>>, <<10, 10>>, <<10, 11>> >>
\* Three distinct points.
DriftPts == << <<0, 1>>, <<1, 2>>, <<3, 0>> >>
\* Three points on a line, two of them equal.
TwinsPts == << <<0>>, <<0>>, <<1>> >>
\* Three corners of the unit square: their centroid (1/3, 2/3) is rounded.
CornerPts == << <<0, 0>>, <<0, 1>>, <<1, 1>> >>
\* Six points on a line: the point 2 is as far from the mean 1/3 of 0, 0, 1
\* as from the mean 11/3 of 2, 3, 6.
SpreadPts == << <<0>>, <<0>>, <<1>>, <<2>>, <<3>>, <<6>> >>
\* Fewer points than dimensions, two of the points equal.
WidePts == << <<0, 0, 0, 0>>, <<0, 0, 0, 0>>, <<1, 0, 0, 0>> >>

Max(a, b) == IF a >= b THEN a ELSE b

RECURSIVE Gcd(_, _)
Gcd(a, b) == IF b = 0 THEN a ELSE Gcd(b, a % b)

RECURSIVE LcmUpTo(_)
LcmUpTo(m) == IF m <= 1 THEN 1 ELSE (LcmUpTo(m - 1) * m) \div Gcd(LcmUpTo(m - 1), m)

\* Denominator of the fixed-point numbers: a common multiple of every
\* possible cluster size.
Scale == LcmUpTo(Max(MaxN, Len(SpreadPts)))

\* ------------------------------------------------------------ float64
Abs(v) == IF v < 0 THEN -v ELSE v

RECURSIVE IsPowerOfTwo(_)
IsPowerOfTwo(m) == m = 1 \/ (m % 2 = 0 /\ IsPowerOfTwo(m \div 2))

\* float64 holds the number v / Scale without rounding
Exact(v) == IsPowerOfTwo(Scale \div Gcd(Abs(v), Scale))

\* ------------------------------------------------------------ arrays
Size(a) == Cardinality(DOMAIN a)                      \* a.shape[0], len(a)
Width(A) == IF Size(A) = 0 THEN 0 ELSE Size(A[0])     \* A.shape[1]
Zeros(n, d) == [r \in 0..(n - 1) |-> [c \in 0..(d - 1) |-> 0]]   \* np.zeros((n,d))
Slice(A, m) == [r \in 0..(m - 1) |-> A[r]]            \* A[0:m]

RECURSIVE SumTo(_, _)
SumTo(f, m) == IF m < 0 THEN 0 ELSE f[m] + SumTo(f, m - 1)
\* np.sum of a 1-D array
Sum(f) == SumTo(f, Size(f) - 1)
\* np.sum of a 2-D array
Sum2(A) == Sum([r \in DOMAIN A |-> Sum(A[r])])

\* ------------------------------------------------------------ results
Ok(v) == [ok |-> TRUE, val |-> v]
Raise(kind, msg) == [ok |-> FALSE, kind |-> kind, msg |-> msg]
None == [ok |-> FALSE, kind |-> "None", msg |-> ""]

MsgMoreCenters == "There are more centers than data points"
\* The message of lines 101 and 179.  It has a grave accent on each side of X
\* and of centers, a character that a TLA+ string cannot hold: the message is
\* given in pieces, with the character code 96 where a grave accent stands.
MsgWidth == <<96, "X", 96, " and ", 96, "centers", 96, " must have the same width">>
MsgLabels == "The number of labels is different from the number of points"
MsgKTooBig == "Number of clusters must be less than number of data points"
MsgKNotPositive == "Number of clusters must be a positive integer"
MsgNaN == "probabilities contain NaN"

\* ------------------------------------------------------------ measure_dist
\* np.sum((pt - cent)**2) for two rows of the same width
SqDiff(pt, cent) == Sum([c \in DOMAIN pt |-> (pt[c] - cent[c]) * (pt[c] - cent[c])])

\* np.sum((pt - cent)**2) for a row pt and a scalar cent, which numpy
\* broadcasts over the coordinates of pt
SqDiffScalar(pt, cent) == Sum([c \in DOMAIN pt |-> (pt[c] - cent) * (pt[c] - cent)])

\* every coordinate of a row is Exact
ExactRow(cent) == \A c \in DOMAIN cent : Exact(cent[c])

\* np.sqrt(s), for s computed from the point pt and the center cent; rounded
\* tells that an operand was a rounded number
Sqrt(s, pt, cent, rounded) == [root_of |-> s, pt |-> pt, cent |-> cent, rounded |-> rounded]

\* a is smaller than b whatever the rounding
DistLess(a, b) == a.root_of < b.root_of

\* a and b are the same float: the same computation, or equal radicands
\* computed without rounding
SameFloat(a, b) ==
    /\ a.root_of = b.root_of
    /\ \/ (a.pt = b.pt /\ a.cent = b.cent)
       \/ (~a.rounded /\ ~b.rounded)

\* a**2
Squared(a) == a.root_of

\* measure_dist(X, centers) for a 2-D centers array (k,d)
measure_dist(X_, centers_) ==
    IF Size(X_) < Size(centers_)
    THEN Raise("Exception", MsgMoreCenters)
    ELSE Ok([nn \in 0..(Size(X_) - 1) |->
              [kk \in 0..(Size(centers_) - 1) |->
                  Sqrt(SqDiff(X_[nn], centers_[kk]), X_[nn], centers_[kk],
                       ~ExactRow(centers_[kk]))]])

\* measure_dist(X, centers[kk]): the second argument is a single row, a 1-D
\* array of length d.  centers.shape[0] is then d, and centers[kk, ] is the
\* kk-th coordinate of the row, a scalar.
measure_dist_row(X_, cent) ==
    IF Size(X_) < Size(cent)
    THEN Raise("Exception", MsgMoreCenters)
    ELSE Ok([nn \in 0..(Size(X_) - 1) |->
              [kk \in 0..(Size(cent) - 1) |->
                  Sqrt(SqDiffScalar(X_[nn], cent[kk]), X_[nn], cent[kk],
                       ~Exact(cent[kk]))]])

\* ------------------------------------------------------------ assign
\* the arrays that take each component x from F[x]
RECURSIVE ProductTo(_, _)
ProductTo(F, m) ==
    IF m = 0 THEN {<<>>}
    ELSE {Append(t, x) : t \in ProductTo(F, m - 1), x \in F[m - 1]}
Product(F) == {[x \in DOMAIN F |-> t[x + 1]] : t \in ProductTo(F, Size(F))}

ArgminLast(row) ==
    {CHOOSE j \in DOMAIN row :
        /\ \A m \in DOMAIN row : ~DistLess(row[m], row[j])
        /\ \A m \in DOMAIN row : row[m].root_of = row[j].root_of => m <= j}

\* np.argmin of a 1-D array of distances, the first index of the minimum:
\* the indices it can return.  An index of least radicand is returned unless
\* an earlier index holds the same float.
Argmin(row) ==
    {j \in DOMAIN row :
        /\ \A m \in DOMAIN row : ~DistLess(row[m], row[j])
        /\ \A m \in DOMAIN row :
             (m < j /\ row[m].root_of = row[j].root_of) => ~SameFloat(row[m], row[j])}

\* np.argmax of a 1-D array of distances, the first index of the maximum:
\* the indices it can return
Argmax(row) ==
    {j \in DOMAIN row :
        /\ \A m \in DOMAIN row : ~DistLess(row[j], row[m])
        /\ \A m \in DOMAIN row :
             (m < j /\ row[m].root_of = row[j].root_of) => ~SameFloat(row[m], row[j])}

\* the row-major flattening that np.argmax applies to a 2-D array
Flatten(A) ==
    [f \in 0..(Size(A) * Width(A) - 1) |-> A[f \div Width(A)][f % Width(A)]]

\* the outcomes of assign(X, centers)
assign(X_, centers_) ==
    IF Width(X_) # Width(centers_)
    THEN {Raise("Exception", MsgWidth)}
    ELSE IF Size(X_) < Size(centers_)
    THEN {Raise("Exception", MsgMoreCenters)}
    ELSE LET distances == measure_dist(X_, centers_).val
         IN  {Ok(l) : l \in Product([nn \in 0..(Size(X_) - 1) |-> Argmin(distances[nn])])}

\* ------------------------------------------------------------ calc_centers
\* number of points with labels == kk
Count(labels_, kk) == Cardinality({nn \in DOMAIN labels_ : labels_[nn] = kk})

MeanAsSum(X_, labels_, kk, dd) ==
    Sum([nn \in DOMAIN X_ |-> IF labels_[nn] = kk THEN X_[nn][dd] ELSE 0])

\* np.mean(X[labels == kk][:, dd]) for a cluster with at least one point
Mean(X_, labels_, kk, dd) ==
    Sum([nn \in DOMAIN X_ |-> IF labels_[nn] = kk THEN X_[nn][dd] ELSE 0])
        \div Count(labels_, kk)

\* X[np.argmax(dists) // d, ] with dists = measure_dist(X, centers[kk]): the
\* rows it can be
FarthestRow(X_, cent) ==
    {X_[f \div Width(X_)] : f \in Argmax(Flatten(measure_dist_row(X_, cent).val))}

CalcKeepOld(X_, centers_, labels_) == {Ok(centers_)}

\* the outcomes of calc_centers(X, centers, labels)
calc_centers(X_, centers_, labels_) ==
    IF Size(X_) # Size(labels_)
    THEN {Raise("Exception", MsgLabels)}
    ELSE IF Width(X_) # Width(centers_)
    THEN {Raise("Exception", MsgWidth)}
    ELSE IF \E kk \in DOMAIN centers_ :
              Count(labels_, kk) = 0 /\ ~measure_dist_row(X_, centers_[kk]).ok
    THEN {Raise("Exception", MsgMoreCenters)}
    ELSE {Ok(C) : C \in Product([kk \in DOMAIN centers_ |->
              IF Count(labels_, kk) > 0
              THEN {[dd \in 0..(Width(X_) - 1) |-> Mean(X_, labels_, kk, dd)]}
              ELSE FarthestRow(X_, centers_[kk])])}

\* ------------------------------------------------------------ init_centers
\* np.inf, written over the zeros at line 55; Less orders it above every number
Inf == -1
Less(a, b) == a # Inf /\ (b = Inf \/ a < b)

RECURSIVE RowMinScan(_, _, _)
RowMinScan(row, j, best) ==
    IF j >= Size(row) THEN best
    ELSE RowMinScan(row, j + 1, IF Less(row[j], best) THEN row[j] ELSE best)

\* the indices held in the list ind
Selected(ind_) == {ind_[j] : j \in DOMAIN ind_}

ZeroSelectedNot(D, ind_) == D

\* for i in ind: dists_sq[i] = np.zeros(...)
ZeroSelected(D, ind_) ==
    [nn \in DOMAIN D |->
        IF nn \in Selected(ind_) THEN [c \in DOMAIN D[nn] |-> 0] ELSE D[nn]]

\* dists_sq[dists_sq == 0] = np.inf
ZeroToInf(D) == [nn \in DOMAIN D |-> [c \in DOMAIN D[nn] |-> IF D[nn][c] = 0 THEN Inf ELSE D[nn][c]]]

\* dists_sq.min(axis=1)
MinAxis1(D) == [nn \in DOMAIN D |-> RowMinScan(D[nn], 1, D[nn][0])]

\* dists_sq[dists_sq == np.inf] = 0
InfToZero(v) == [nn \in DOMAIN v |-> IF v[nn] = Inf THEN 0 ELSE v[nn]]

\* measure_dist(X, centers[0:kk])**2
SquaredDists(X_, centers_) ==
    LET D == measure_dist(X_, centers_).val
    IN  [nn \in DOMAIN D |-> [c \in DOMAIN D[nn] |-> Squared(D[nn][c])]]

\* The vector dists_sq of lines 50-60 at step kk of the seeding loop: the
\* numerators of probs.
SeedWeights(X_, centers_, ind_, kk) ==
    InfToZero(MinAxis1(ZeroToInf(ZeroSelected(
        SquaredDists(X_, Slice(centers_, kk)), ind_))))

InitCentersErrorZeroAllowed(X_, k_) ==
    IF k_ > Size(X_) THEN Raise("Exception", MsgKTooBig)
    ELSE IF k_ < 0 THEN Raise("Exception", MsgKNotPositive)
    ELSE None

\* the guards of init_centers, in the order of the code
InitCentersError(X_, k_) ==
    IF k_ > Size(X_) THEN Raise("Exception", MsgKTooBig)
    ELSE IF k_ <= 0 THEN Raise("Exception", MsgKNotPositive)
    ELSE None

\* ------------------------------------------------------------ fit
\* A difference A[r][c] - B[r][c] that carries a rounding error: the entries
\* differ and one of them is a rounded number.
RoundedDiff(A, B) ==
    \E r \in DOMAIN A : \E c \in DOMAIN A[r] :
        A[r][c] # B[r][c] /\ (~Exact(A[r][c]) \/ ~Exact(B[r][c]))

\* np.sum(new_centers - centers): the floats it can be, each given as the
\* exact sum and the sign of the rounding error
SumDiff(A, B) ==
    {[sum |-> Sum2([r \in DOMAIN A |-> [c \in DOMAIN A[r] |-> A[r][c] - B[r][c]]]),
      err |-> e] : e \in IF RoundedDiff(A, B) THEN {-1, 0, 1} ELSE {0}}

\* the truth value of a float in a condition: it is not zero
Truthy(f) == f.sum # 0 \/ f.err # 0

\* the condition of fit's while loop: the values it can have
WhileCond(new_centers_, centers_, i_) ==
    {Truthy(f) /\ i_ < MaxIter : f \in SumDiff(new_centers_, centers_)}

\* ------------------------------------------------------------ inputs
\* the array of a tuple of tuples of whole numbers
Array(pts) ==
    [r \in 0..(Len(pts) - 1) |-> [c \in 0..(Len(pts[1]) - 1) |-> pts[r + 1][c + 1] * Scale]]
Blobs == Array(BlobsPts)
Drift == Array(DriftPts)
Twins == Array(TwinsPts)
Corner == Array(CornerPts)
Spread == Array(SpreadPts)
Wide == Array(WidePts)

Arrays(rows, width, coords) == [0..(rows - 1) -> [0..(width - 1) -> coords]]

\* the data sets given to fit_assign
Coords == {c * Scale : c \in 0..MaxCoord}
DataSets ==
    UNION {Arrays(rows, width, Coords) : rows \in 1..MaxN, width \in Dims}
        \cup {Blobs, Drift, Twins, Corner, Spread, Wide}

\* the arguments of the direct calls
CallCoords == {0, Scale}
CallArrays == UNION {Arrays(rows, width, CallCoords) : rows \in 1..CallMaxN, width \in Dims}
CallLabels == UNION {[0..(rows - 1) -> {0, 1}] : rows \in 1..CallMaxN}

\* ------------------------------------------------------------ state
VARIABLES
    X,            \* the data, argument of the call
    k,            \* the number of clusters, argument of the call
    pc,           \* position of the call
    ind,          \* init_centers: list of the indices selected so far
    dists_sq,     \* init_centers: the sampling weights of the last draw
    centers,      \* init_centers and fit: current center matrix
    labels,       \* fit: labels
    new_centers,  \* fit: new_centers
    new_labels,   \* fit: new_labels
    i,            \* fit: iteration counter
    ret_init,     \* outcome of init_centers(X, k)
    ret_fit,      \* outcome of fit(X, k)
    ret           \* outcome of the outermost call

vars == <<X, k, pc, ind, dists_sq, centers, labels, new_centers, new_labels, i,
          ret_init, ret_fit, ret>>

n == Size(X)
d == Width(X)

Init ==
    /\ X \in DataSets
    /\ k \in -1..(Size(X) + 1)
    /\ pc = "fit_assign"
    /\ ind = <<>>
    /\ dists_sq = <<>>
    /\ centers = <<>>
    /\ labels = <<>>
    /\ new_centers = <<>>
    /\ new_labels = <<>>
    /\ i = 0
    /\ ret_init = None
    /\ ret_fit = None
    /\ ret = None

\* fit_assign(X, k): X is numeric and k an integer, so the checks of lines
\* 293-303 pass; line 305 calls fit
FitAssignCall ==
    /\ pc = "fit_assign"
    /\ pc' = "fit"
    /\ UNCHANGED <<X, k, ind, dists_sq, centers, labels, new_centers, new_labels, i,
                   ret_init, ret_fit, ret>>

\* fit(X, k): the checks of lines 230-240 pass; line 243 calls init_centers
FitCall ==
    /\ pc = "fit"
    /\ pc' = "init_centers"
    /\ UNCHANGED <<X, k, ind, dists_sq, centers, labels, new_centers, new_labels, i,
                   ret_init, ret_fit, ret>>

\* init_centers, lines 30-36: k out of range
InitCentersRaise ==
    /\ pc = "init_centers"
    /\ InitCentersError(X, k) # None
    /\ ret_init' = InitCentersError(X, k)
    /\ pc' = "fit_raise"
    /\ UNCHANGED <<X, k, ind, dists_sq, centers, labels, new_centers, new_labels, i,
                   ret_fit, ret>>

\* init_centers, lines 38-45: the first center, random.randint(0, n - 1)
SeedFirst ==
    /\ pc = "init_centers"
    /\ InitCentersError(X, k) = None
    /\ \E r \in 0..(n - 1) :
        /\ ind' = <<r>>
        /\ centers' = [Zeros(k, d) EXCEPT ![0] = X[r]]
    /\ pc' = "seeding"
    /\ UNCHANGED <<X, k, dists_sq, labels, new_centers, new_labels, i,
                   ret_init, ret_fit, ret>>

\* init_centers, lines 48-69: one pass of the loop.  np.random.choice draws
\* an index whose probability is positive.
SeedNext ==
    /\ pc = "seeding"
    /\ Len(ind) < k
    /\ LET w == SeedWeights(X, centers, ind, Len(ind))
       IN  /\ Sum(w) # 0
           /\ dists_sq' = w
           /\ \E c \in DOMAIN w :
                /\ w[c] > 0
                /\ ind' = Append(ind, c)
                /\ centers' = [centers EXCEPT ![Len(ind)] = X[c]]
    /\ UNCHANGED <<X, k, pc, labels, new_centers, new_labels, i, ret_init, ret_fit, ret>>

\* init_centers, lines 62-68: all weights are zero, so probs is 0/0 = NaN in
\* every entry and np.random.choice raises ValueError
SeedRaise ==
    /\ pc = "seeding"
    /\ Len(ind) < k
    /\ LET w == SeedWeights(X, centers, ind, Len(ind))
       IN  /\ Sum(w) = 0
           /\ dists_sq' = w
    /\ ret_init' = Raise("ValueError", MsgNaN)
    /\ pc' = "fit_raise"
    /\ UNCHANGED <<X, k, ind, centers, labels, new_centers, new_labels, i, ret_fit, ret>>

\* init_centers, line 70
InitCentersReturn ==
    /\ pc = "seeding"
    /\ Len(ind) >= k
    /\ ret_init' = Ok(centers)
    /\ pc' = "first_iter"
    /\ UNCHANGED <<X, k, ind, dists_sq, centers, labels, new_centers, new_labels, i,
                   ret_fit, ret>>

\* fit, lines 246-251: the first iteration
FirstIteration ==
    /\ pc = "first_iter"
    /\ \E l \in assign(X, centers) :
       \E c \in IF l.ok THEN calc_centers(X, centers, l.val) ELSE {l} :
           IF l.ok /\ c.ok
           THEN /\ labels' = l.val
                /\ new_centers' = c.val
                /\ new_labels' = l.val
                /\ i' = i + 1
                /\ pc' = "while"
                /\ UNCHANGED ret_fit
           ELSE /\ ret_fit' = IF l.ok THEN c ELSE l
                /\ pc' = "fit_assign_raise"
                /\ labels' = IF l.ok THEN l.val ELSE labels
                /\ UNCHANGED <<new_centers, new_labels, i>>
    /\ UNCHANGED <<X, k, ind, dists_sq, centers, ret_init, ret>>

\* fit, lines 254-261: one pass of the while loop
WhileBody ==
    /\ pc = "while"
    /\ TRUE \in WhileCond(new_centers, centers, i)
    /\ \E l \in assign(X, new_centers) :
       \E c \in IF l.ok THEN calc_centers(X, new_centers, l.val) ELSE {l} :
           IF l.ok /\ c.ok
           THEN /\ centers' = new_centers
                /\ labels' = new_labels
                /\ new_labels' = l.val
                /\ new_centers' = c.val
                /\ i' = i + 1
                /\ UNCHANGED <<pc, ret_fit>>
           ELSE /\ ret_fit' = IF l.ok THEN c ELSE l
                /\ pc' = "fit_assign_raise"
                /\ centers' = new_centers
                /\ labels' = new_labels
                /\ new_labels' = IF l.ok THEN l.val ELSE new_labels
                /\ UNCHANGED <<new_centers, i>>
    /\ UNCHANGED <<X, k, ind, dists_sq, ret_init, ret>>

\* fit, line 263
FitReturn ==
    /\ pc = "while"
    /\ FALSE \in WhileCond(new_centers, centers, i)
    /\ ret_fit' = Ok(new_centers)
    /\ pc' = "fit_returned"
    /\ UNCHANGED <<X, k, ind, dists_sq, centers, labels, new_centers, new_labels, i,
                   ret_init, ret>>

\* fit has no handler: the exception of init_centers leaves fit as it is
FitRaise ==
    /\ pc = "fit_raise"
    /\ ret_fit' = ret_init
    /\ pc' = "fit_assign_raise"
    /\ UNCHANGED <<X, k, ind, dists_sq, centers, labels, new_centers, new_labels, i,
                   ret_init, ret>>

\* fit_assign has no handler: the exception of fit leaves fit_assign as it is
FitAssignRaise ==
    /\ pc = "fit_assign_raise"
    /\ ret' = ret_fit
    /\ pc' = "done"
    /\ UNCHANGED <<X, k, ind, dists_sq, centers, labels, new_centers, new_labels, i,
                   ret_init, ret_fit>>

\* fit_assign, lines 305-308
FitAssignReturn ==
    /\ pc = "fit_returned"
    /\ \E l \in assign(X, ret_fit.val) :
         ret' = IF l.ok THEN Ok([centers |-> ret_fit.val, labels |-> l.val]) ELSE l
    /\ pc' = "done"
    /\ UNCHANGED <<X, k, ind, dists_sq, centers, labels, new_centers, new_labels, i,
                   ret_init, ret_fit>>

Next ==
    \/ FitAssignCall
    \/ FitCall
    \/ InitCentersRaise
    \/ SeedFirst
    \/ SeedNext
    \/ SeedRaise
    \/ InitCentersReturn
    \/ FirstIteration
    \/ WhileBody
    \/ FitReturn
    \/ FitRaise
    \/ FitAssignRaise
    \/ FitAssignReturn

Spec == Init /\ [][Next]_vars

\* ------------------------------------------------------------ direct calls
\* The public functions measure_dist, assign and calc_centers called on
\* drawn arguments: X, centers and labels hold the arguments, ret the outcome.
InitCalls ==
    /\ X \in CallArrays
    /\ centers \in CallArrays
    /\ labels \in CallLabels
    /\ pc = "call"
    /\ k = 0
    /\ ind = <<>>
    /\ dists_sq = <<>>
    /\ new_centers = <<>>
    /\ new_labels = <<>>
    /\ i = 0
    /\ ret_init = None
    /\ ret_fit = None
    /\ ret = None

\* measure_dist on arrays of one width, (n,d) and (k,d) as it documents
CallMeasureDist ==
    /\ pc = "call"
    /\ Width(X) = Width(centers)
    /\ ret' = measure_dist(X, centers)
    /\ pc' = "measure_dist"
    /\ UNCHANGED <<X, k, ind, dists_sq, centers, labels, new_centers, new_labels, i,
                   ret_init, ret_fit>>

CallAssign ==
    /\ pc = "call"
    /\ ret' \in assign(X, centers)
    /\ pc' = "assign"
    /\ UNCHANGED <<X, k, ind, dists_sq, centers, labels, new_centers, new_labels, i,
                   ret_init, ret_fit>>

CallCalcCenters ==
    /\ pc = "call"
    /\ ret' \in calc_centers(X, centers, labels)
    /\ pc' = "calc_centers"
    /\ UNCHANGED <<X, k, ind, dists_sq, centers, labels, new_centers, new_labels, i,
                   ret_init, ret_fit>>

NextCalls ==
    \/ CallMeasureDist
    \/ CallAssign
    \/ CallCalcCenters

SpecCalls == InitCalls /\ [][NextCalls]_vars

\* ------------------------------------------------------------ claims
\* the squared Euclidean distance from row p of X to the row c
Dist(p, c) == SqDiff(X[p], c)

\* k is in the range init_centers accepts
ValidK == 0 < k /\ k <= n

\* positions of the call of fit_assign that follow the end of init_centers
AfterInitCenters == {"first_iter", "while", "fit_returned", "fit_raise", "fit_assign_raise", "done"}
\* positions that follow the end of fit
AfterFit == {"fit_returned", "fit_assign_raise", "done"}

Distinct(f) == \A a \in DOMAIN f : \A b \in DOMAIN f : a # b => f[a] # f[b]

\* C1: for every cluster j without a point labelled j, calc_centers does not
\* raise and row j of its result is a row of X that is farthest, in Euclidean
\* distance, from the old center centers[j].
C1_EmptyClusterGetsFarthestPoint ==
    (/\ pc = "calc_centers"
     /\ Size(labels) = n
     /\ Width(centers) = d
     /\ Size(centers) <= n
     /\ \E j \in DOMAIN centers : Count(labels, j) = 0)
    => /\ ret.ok
       /\ \A j \in DOMAIN centers :
            Count(labels, j) = 0 =>
                \E r \in DOMAIN X :
                    /\ ret.val[j] = X[r]
                    /\ \A m \in DOMAIN X : Dist(m, centers[j]) <= Dist(r, centers[j])

\* C2: assign returns a vector of length n whose entry p is in [0, k) and is
\* the lowest index of a center at minimal Euclidean distance from X[p].
C2_AssignLowestNearest ==
    (pc = "assign" /\ Width(centers) = d /\ Size(centers) <= n)
    => /\ ret.ok
       /\ DOMAIN ret.val = 0..(n - 1)
       /\ \A p \in DOMAIN X :
            /\ ret.val[p] \in 0..(Size(centers) - 1)
            /\ \A j \in DOMAIN centers :
                 /\ Dist(p, centers[ret.val[p]]) <= Dist(p, centers[j])
                 /\ Dist(p, centers[j]) = Dist(p, centers[ret.val[p]]) => ret.val[p] <= j

\* a call of assign in which one point has a strictly nearest center of index
\* above 0 and another point is equally near to two centers
C2_Witness ==
    /\ pc = "assign"
    /\ ret.ok
    /\ \E p \in DOMAIN X : ret.val[p] > 0
    /\ \E p \in DOMAIN X : \E j \in DOMAIN centers :
         j # ret.val[p] /\ Dist(p, centers[j]) = Dist(p, centers[ret.val[p]])

\* C3: every call of fit with valid k ends with the latest center matrix
\* returned, after at most 20 rounds, the loop being left exactly when the
\* sum of the coordinate differences is zero or the counter has reached 20.
C3_FitReturnsWithinCap ==
    ValidK =>
        /\ i <= MaxIter
        /\ pc \in AfterFit =>
             /\ ret_fit = Ok(new_centers)
             /\ FALSE \in WhileCond(new_centers, centers, i)
             /\ 1 <= i

\* C4: init_centers returns, for valid k, the rows of X at k pairwise
\* distinct indices, and raises nothing.
C4_SeedsDistinctRows ==
    ValidK =>
        /\ Distinct(ind)
        /\ pc \in AfterInitCenters =>
             /\ ret_init.ok
             /\ Len(ind) = k
             /\ ret_init.val = [j \in 0..(k - 1) |-> X[ind[j + 1]]]

\* the outcome of fit_assign makes each point its own cluster
OwnClusters ==
    /\ ret.ok
    /\ Distinct(ret.val.labels)
    /\ \A p \in DOMAIN X : X[p] = ret.val.centers[ret.val.labels[p]]

\* C5 as stated: fit_assign(X, n) succeeds and makes each point its own
\* cluster, for every X.
C5_Original == (k = n /\ pc = "done") => OwnClusters

\* C5 as amended: fit_assign(X, n) succeeds and makes each point its own
\* cluster, for every X whose rows are pairwise distinct.
C5_OwnClustersOfDistinctPoints == (k = n /\ Distinct(X) /\ pc = "done") => OwnClusters

\* fit_assign(X, n) has returned for at least three distinct points
C5_Witness == k = n /\ n >= 3 /\ Distinct(X) /\ pc = "done" /\ OwnClusters

\* C6: on the two well separated pairs with k = 2, fit_assign gives the two
\* low points one label and the two high points the other label.
C6_BlobsPartition ==
    (X = Blobs /\ k = 2 /\ pc = "done")
    => /\ ret.ok
       /\ ret.val.labels[0] = ret.val.labels[1]
       /\ ret.val.labels[2] = ret.val.labels[3]
       /\ ret.val.labels[0] # ret.val.labels[2]

\* fit_assign has returned on the two pairs after seeding both centers in
\* the same pair, so that the first labels split a pair
C6_Witness ==
    /\ X = Blobs /\ k = 2 /\ pc = "done" /\ ret.ok
    /\ ind = <<2, 3>>
    /\ i >= 3

\* the per-dimension arithmetic mean of all rows of X
GlobalCentroid == [c \in 0..(d - 1) |-> Sum([p \in DOMAIN X |-> X[p][c]]) \div n]

\* C7: fit(X, 1) returns the one-row matrix of the global centroid of X.
C7_OneClusterIsCentroid ==
    (k = 1 /\ pc \in AfterFit)
    => /\ ret_fit.ok
       /\ ret_fit.val = [j \in {0} |-> GlobalCentroid]
       /\ \A c \in 0..(d - 1) : n * ret_fit.val[0][c] = Sum([p \in DOMAIN X |-> X[p][c]])

\* fit(X, 1) has returned a centroid that is none of the points, after the
\* loop ran
C7_Witness ==
    /\ k = 1 /\ pc = "fit_returned" /\ ret_fit.ok
    /\ i = 2
    /\ \A p \in DOMAIN X : X[p] # ret_fit.val[0]

\* C8: for k <= 0 and for k > n, init_centers raises, no center is seeded,
\* no iteration runs, and fit and fit_assign end with that same exception.
C8_BadKRaisesThrough ==
    (k <= 0 \/ k > n) =>
        /\ pc \in {"fit_assign", "fit", "init_centers", "fit_raise", "fit_assign_raise", "done"}
        /\ i = 0 /\ ind = <<>> /\ centers = <<>>
        /\ pc \in {"fit_raise", "fit_assign_raise", "done"} =>
             /\ ret_init = Raise("Exception", IF k > n THEN MsgKTooBig ELSE MsgKNotPositive)
        /\ pc \in {"fit_assign_raise", "done"} => ret_fit = ret_init
        /\ pc = "done" => ret = ret_init

\* fit_assign has ended with the exception init_centers raised for k = 0
C8_Witness ==
    /\ k = 0 /\ pc = "done"
    /\ ret = Raise("Exception", MsgKNotPositive)
    /\ ret_init = ret

RECURSIVE NearestChosen(_, _)
\* squared distance from row p to the nearest of the centers 0..m
NearestChosen(p, m) ==
    IF m = 0 THEN Dist(p, centers[0])
    ELSE LET rest == NearestChosen(p, m - 1)
         IN  IF Dist(p, centers[m]) < rest THEN Dist(p, centers[m]) ELSE rest

\* C9: at every draw of center 2..k the weight of each point not selected
\* before the draw is its squared distance to the nearest center chosen
\* before the draw.
C9_WeightIsNearestSquaredDistance ==
    (pc = "seeding" /\ Len(ind) >= 2) =>
        \A p \in DOMAIN X :
            p \notin Selected(SubSeq(ind, 1, Len(ind) - 1)) =>
                dists_sq[p] = NearestChosen(p, Len(ind) - 2)

\* C is a fixed point of the update, for some outcome of the rounding
FixedPoint(C) ==
    \E l \in assign(X, C) : l.ok /\ Ok(C) \in calc_centers(X, C, l.val)

\* C10: a center matrix that fit returns before the counter has reached 20
\* is a fixed point of the update.
C10_EarlyReturnIsFixedPoint ==
    (pc = "fit_returned" /\ i < MaxIter) => FixedPoint(ret_fit.val)

====
